---- MODULE Spec2Model ----
(***************************************************************************)
(* Model of the blog REST API: the Blog collection, the protect middleware *)
(* and the handlers of blog.controller.js (getBlogs, getBlogById,          *)
(* createBlog, updateBlog, deleteBlog, getAdminBlogs).  A request is       *)
(* handled by a process; a handler that awaits the store twice is split at *)
(* the second await, so that requests interleave as they do on the server. *)
(***************************************************************************)
EXTENDS Integers, Sequences, FiniteSets, TLC

\* ---------------------------------------------------------------- bounds
MaxBlogs == 2
MaxTime == 1
\* The most published posts the store holds when the listing is paged.
MaxPosts == 13

\* ------------------------------------------------------------- constants
DefaultPage == 1
DefaultLimit == 10
Unset == -1

Procs == {"p1"}
\* The processes of the specifications in which two requests are in progress
\* at once.
ConcProcs == {"p1", "p2"}
Admins == {"a1", "a2"}
GhostAdmin == "ghost"
NoAdmin == "anonymous"
NoAuthor == "null"

BlogIds == 1..MaxBlogs
Times == 0..MaxTime

\* The sections of a post: an ordered sequence of section headings.
NoSections == <<>>
FirstSections == <<"s1", "s2">>
SecondSections == <<"t1", "t2">>
WholeSections == {FirstSections, SecondSections}

\* ------------------------------------------------------------ credentials
\* What a request carries in its Authorization header: no header that
\* starts with Bearer, a Bearer token jwt.verify rejects, or a Bearer token
\* signed for an id.
Creds ==
    {[scheme |-> "none", valid |-> FALSE, id |-> NoAdmin],
     [scheme |-> "bearer", valid |-> FALSE, id |-> NoAdmin]}
    \cup {[scheme |-> "bearer", valid |-> TRUE, id |-> a] :
            a \in Admins \cup {GhostAdmin}}

\* The admin a credential stands for, NoAdmin when it stands for none.
Identity(cred) ==
    IF cred.scheme = "bearer" /\ cred.valid /\ cred.id \in Admins
    THEN cred.id ELSE NoAdmin

\* protect without its final "no token" rejection: a request that carries no
\* bearer credential goes on to the handler.
protectSkipsNoToken(cred) ==
    IF cred.scheme = "bearer" /\ cred.valid /\ cred.id \in Admins
    THEN [next |-> TRUE, admin |-> cred.id, status |-> 0, message |-> ""]
    ELSE IF cred.scheme = "bearer"
    THEN [next |-> FALSE, admin |-> NoAdmin, status |-> 401,
          message |-> "Not authorized"]
    ELSE [next |-> TRUE, admin |-> NoAdmin, status |-> 0, message |-> ""]

\* protect without its test that the admin the token names exists.
protectAcceptsGhost(cred) ==
    IF cred.scheme = "bearer"
    THEN IF cred.valid
         THEN [next |-> TRUE, admin |-> cred.id, status |-> 0, message |-> ""]
         ELSE [next |-> FALSE, admin |-> NoAdmin, status |-> 401,
               message |-> "Not authorized"]
    ELSE [next |-> FALSE, admin |-> NoAdmin, status |-> 401,
          message |-> "Not authorized, no token"]

\* protect: the outcome of the middleware for a credential.
protect(cred) ==
    IF cred.scheme = "bearer"
    THEN IF cred.valid
         THEN IF cred.id \in Admins
              THEN [next |-> TRUE, admin |-> cred.id, status |-> 0,
                    message |-> ""]
              ELSE [next |-> FALSE, admin |-> NoAdmin, status |-> 401,
                    message |-> "Not authorized"]
         ELSE [next |-> FALSE, admin |-> NoAdmin, status |-> 401,
               message |-> "Not authorized"]
    ELSE [next |-> FALSE, admin |-> NoAdmin, status |-> 401,
          message |-> "Not authorized, no token"]

\* ------------------------------------------------------------------ state
\* blogs, nextId, now: the blog collection, the next id the store assigns and
\* the clock; inflight, res: the request each server process is handling and
\* the response sent last; blogList, session, dashboard: the state of the
\* React components BlogList, AuthProvider and AdminDashboard.
VARIABLES blogs, nextId, now, inflight, res, blogList, session, dashboard

vars == <<blogs, nextId, now, inflight, res, blogList, session, dashboard>>

frontend == <<blogList, session, dashboard>>

\* A document of a store, as a response carries it.
DocOf(store, id) ==
    [id |-> id, author |-> store[id].author,
     isPublished |-> store[id].isPublished,
     publishedAt |-> store[id].publishedAt]

Doc(id) == DocOf(blogs, id)

NoDoc == [id |-> 0, author |-> NoAuthor, isPublished |-> FALSE,
          publishedAt |-> Unset]

NoCred == [scheme |-> "none", valid |-> FALSE, id |-> NoAdmin]

\* req.body of a create or update request: the fields it carries (has) and
\* their values; a field it does not carry has the value of EmptyBody.
EmptyBody == [has |-> {}, isPublished |-> FALSE, publishedAt |-> Unset,
              author |-> NoAuthor, sections |-> NoSections]

\* The bodies requests are drawn from: those carrying at most one field.
Bodies ==
    {b \in [has : SUBSET {"isPublished", "publishedAt", "author"},
            isPublished : BOOLEAN,
            publishedAt : Times \cup {Unset},
            author : Admins \cup {NoAuthor},
            sections : {NoSections}] :
        /\ Cardinality(b.has) <= 1
        /\ "author" \in b.has => b.author \in Admins
        /\ "isPublished" \notin b.has => b.isPublished = EmptyBody.isPublished
        /\ "publishedAt" \notin b.has => b.publishedAt = EmptyBody.publishedAt
        /\ "author" \notin b.has => b.author = EmptyBody.author}

\* handlePublishToggle: the body the dashboard sends for its copy of a post,
\* { ...blog, isPublished: !blog.isPublished }; JSON drops an undefined
\* publishedAt.
ToggleBody(doc) ==
    [has |-> {"isPublished", "author", "sections"}
               \cup (IF doc.publishedAt = Unset THEN {} ELSE {"publishedAt"}),
     isPublished |-> ~doc.isPublished,
     publishedAt |-> doc.publishedAt,
     author |-> doc.author,
     sections |-> doc.sections]

Idle == [op |-> "idle", id |-> 0, admin |-> NoAdmin, cred |-> NoCred,
         body |-> EmptyBody, page |-> 0, limit |-> 0, found |-> <<>>,
         email |-> "", password |-> ""]

NoResponse ==
    [proc |-> "none", op |-> "none", cred |-> NoCred, id |-> 0, status |-> 0,
     message |-> "", handler |-> "none", blog |-> NoDoc, blogs |-> <<>>,
     count |-> 0, total |-> 0, pages |-> 0, currentPage |-> 0,
     limit |-> 0, sections |-> NoSections, body |-> EmptyBody,
     email |-> "", password |-> "", token |-> NoCred, admin |-> NoAdmin,
     nexts |-> 0, sends |-> 0]

\* A response of process p to request op; handler is the controller function
\* that was entered, "none" when the request was answered before any.  cred,
\* id, limit, body, email and password are those of the request answered;
\* sections are those of the blog a single-post read returns; token and admin
\* are those a login or GET /api/auth/me answers with; nexts and sends count
\* the calls of next() and the responses sent by protect where its steps are
\* modelled one by one.
Reply(p, op, cred, id, status, message, handler) ==
    [NoResponse EXCEPT !.proc = p, !.op = op, !.cred = cred, !.id = id,
                       !.status = status, !.message = message,
                       !.handler = handler]

\* BlogList as constructed: useState(1) for page and totalPages, no blogs
\* shown, loading; fetched is the page of the last fetchBlogs, 0 before the
\* first, and pending the page of the request awaited, 0 when there is none.
BlogListInit ==
    [page |-> 1, totalPages |-> 1, shown |-> 0, loading |-> TRUE,
     error |-> FALSE, fetched |-> 0, pending |-> 0]

\* AuthProvider as constructed in a browser whose localStorage holds token:
\* no Authorization header, no admin, loading; fetchAdmin and login are
\* "none", "sent" or "done", sent is the header fetchAdmin was sent with.
SessionInit(token) ==
    [token |-> token, header |-> NoCred, admin |-> NoAdmin, loading |-> TRUE,
     mounted |-> FALSE, fetchAdmin |-> "none", sent |-> NoCred,
     login |-> "none", email |-> "", password |-> ""]

\* AdminDashboard as constructed: no blogs, updatingId null (0), no toggle
\* request awaited.
DashboardInit == [blogs |-> <<>>, updatingId |-> 0, pending |-> <<>>]

\* The components where a specification has only the server take steps.
InitFrontend ==
    /\ blogList = BlogListInit
    /\ session = SessionInit(NoCred)
    /\ dashboard = DashboardInit

Init ==
    /\ blogs = <<>>
    /\ nextId = 1
    /\ now = 0
    /\ inflight = [p \in Procs |-> Idle]
    /\ res = NoResponse
    /\ InitFrontend

\* Process p can take a request: it handles none and its last answer has
\* been received.
Ready(p) == inflight[p].op = "idle" /\ res.proc # p

\* The client receives the answer res.json sent.
Receive ==
    /\ res.op # "none"
    /\ res' = NoResponse
    /\ UNCHANGED <<blogs, nextId, now, inflight>>
    /\ UNCHANGED frontend

\* blogSchema.pre('save'): the first-publish timestamp.
PreSave(doc, t) ==
    IF doc.isPublished /\ doc.publishedAt = Unset
    THEN [doc EXCEPT !.publishedAt = t]
    ELSE doc

\* The clock of new Date().
Tick ==
    /\ now < MaxTime
    /\ now' = now + 1
    /\ UNCHANGED <<blogs, nextId, inflight, res>>
    /\ UNCHANGED frontend

\* getBlogById: the answer to GET /api/blogs/:id over a store.  The handler
\* does not look at the credential the request carries.
getBlogById(store, p, cred, id) ==
    IF id \notin DOMAIN store
    THEN Reply(p, "getBlogById", cred, id, 404, "Blog not found",
               "getBlogById")
    ELSE IF ~store[id].isPublished
    THEN Reply(p, "getBlogById", cred, id, 403, "This blog is not published",
               "getBlogById")
    ELSE [Reply(p, "getBlogById", cred, id, 200, "", "getBlogById")
            EXCEPT !.blog = DocOf(store, id),
                   !.sections = store[id].sections]

\* GET /api/blogs/:id, a public route: no middleware runs before the handler.
GetBlogById(p, cred, id) ==
    /\ res' = getBlogById(blogs, p, cred, id)
    /\ UNCHANGED <<blogs, nextId, now, inflight>>
    /\ UNCHANGED frontend

\* The new document with the author taken from the body when it carries one.
NewBlogAuthorFromBody(admin, body) ==
    [author |-> IF "author" \in body.has THEN body.author ELSE admin,
     isPublished |-> IF "isPublished" \in body.has
                     THEN body.isPublished ELSE FALSE,
     publishedAt |-> Unset,
     sections |-> IF "sections" \in body.has
                  THEN body.sections ELSE NoSections]

\* The document createBlog hands to Blog.create: of the body only the fields
\* it destructures, the author from req.admin, isPublished false and sections
\* empty by the schema defaults.
NewBlog(admin, body) ==
    [author |-> admin,
     isPublished |-> IF "isPublished" \in body.has
                     THEN body.isPublished ELSE FALSE,
     publishedAt |-> Unset,
     sections |-> IF "sections" \in body.has
                  THEN body.sections ELSE NoSections]

\* POST /api/blogs: protect, then createBlog.  Blog.create runs the schema
\* defaults and the pre('save') hook; the store assigns the next id.
CreateBlog(p, cred, body) ==
    /\ LET auth == protect(cred) IN
       IF ~auth.next
       THEN /\ res' = Reply(p, "createBlog", cred, 0, auth.status,
                            auth.message, "none")
            /\ UNCHANGED <<blogs, nextId>>
       ELSE /\ nextId <= MaxBlogs
            /\ LET doc == PreSave(NewBlog(auth.admin, body), now)
               IN /\ blogs' = [i \in DOMAIN blogs \cup {nextId} |->
                                  IF i = nextId THEN doc ELSE blogs[i]]
                  /\ res' = [Reply(p, "createBlog", cred, nextId, 201,
                                   "Blog created successfully", "createBlog")
                                EXCEPT !.blog = [id |-> nextId,
                                                 author |-> doc.author,
                                                 isPublished |-> doc.isPublished,
                                                 publishedAt |-> doc.publishedAt],
                                       !.sections = doc.sections,
                                       !.body = body]
            /\ nextId' = nextId + 1
    /\ UNCHANGED <<now, inflight>>
    /\ UNCHANGED frontend

\* The update with the sections written one store call each: this call
\* replaces the first section only.
ApplyUpdateSectionWise(doc, body) ==
    [author |-> IF "author" \in body.has THEN body.author ELSE doc.author,
     isPublished |-> IF "isPublished" \in body.has
                     THEN body.isPublished ELSE doc.isPublished,
     publishedAt |-> IF "publishedAt" \in body.has
                     THEN body.publishedAt ELSE doc.publishedAt,
     sections |-> IF "sections" \in body.has /\ body.sections # <<>>
                       /\ doc.sections # <<>>
                  THEN <<Head(body.sections)>> \o Tail(doc.sections)
                  ELSE doc.sections]

\* The update with publishedAt taken from the clock whenever the body
\* publishes.
ApplyUpdateRestamps(doc, body) ==
    [author |-> IF "author" \in body.has THEN body.author ELSE doc.author,
     isPublished |-> IF "isPublished" \in body.has
                     THEN body.isPublished ELSE doc.isPublished,
     publishedAt |-> IF "isPublished" \in body.has /\ body.isPublished
                     THEN now
                     ELSE IF "publishedAt" \in body.has
                     THEN body.publishedAt ELSE doc.publishedAt,
     sections |-> IF "sections" \in body.has
                  THEN body.sections ELSE doc.sections]

\* Blog.findByIdAndUpdate(id, req.body): every field the body carries is
\* $set on the stored document; no save hook runs.
ApplyUpdate(doc, body) ==
    [author |-> IF "author" \in body.has THEN body.author ELSE doc.author,
     isPublished |-> IF "isPublished" \in body.has
                     THEN body.isPublished ELSE doc.isPublished,
     publishedAt |-> IF "publishedAt" \in body.has
                     THEN body.publishedAt ELSE doc.publishedAt,
     sections |-> IF "sections" \in body.has
                  THEN body.sections ELSE doc.sections]

\* The ownership test left out.
IsAuthorUnchecked(doc, admin) == TRUE

\* The ownership test of updateBlog and deleteBlog.
IsAuthor(doc, admin) == doc.author = admin

\* updateBlog with the update applied before the ownership test.
UpdateBlogFindWritesFirst(p, cred, id, body) ==
    /\ LET auth == protect(cred) IN
       IF ~auth.next
       THEN /\ res' = Reply(p, "updateBlog", cred, id, auth.status,
                            auth.message, "none")
            /\ UNCHANGED blogs
       ELSE IF id \notin DOMAIN blogs
       THEN /\ res' = Reply(p, "updateBlog", cred, id, 404, "Blog not found",
                            "updateBlog")
            /\ UNCHANGED blogs
       ELSE /\ blogs' = [blogs EXCEPT ![id] = ApplyUpdate(blogs[id], body)]
            /\ res' = IF ~IsAuthor(blogs[id], auth.admin)
                      THEN Reply(p, "updateBlog", cred, id, 403,
                                 "Not authorized to update this blog",
                                 "updateBlog")
                      ELSE Reply(p, "updateBlog", cred, id, 200,
                                 "Blog updated successfully", "updateBlog")
    /\ UNCHANGED <<nextId, now, inflight>>
    /\ UNCHANGED frontend

\* PUT /api/blogs/:id, up to the second await: protect, Blog.findById, the
\* ownership test.  found is the document findById loaded.
UpdateBlogFind(p, cred, id, body) ==
    /\ LET auth == protect(cred) IN
       IF ~auth.next
       THEN /\ res' = Reply(p, "updateBlog", cred, id, auth.status,
                            auth.message, "none")
            /\ UNCHANGED inflight
       ELSE IF id \notin DOMAIN blogs
       THEN /\ res' = Reply(p, "updateBlog", cred, id, 404, "Blog not found",
                            "updateBlog")
            /\ UNCHANGED inflight
       ELSE IF ~IsAuthor(blogs[id], auth.admin)
       THEN /\ res' = Reply(p, "updateBlog", cred, id, 403,
                            "Not authorized to update this blog", "updateBlog")
            /\ UNCHANGED inflight
       ELSE /\ inflight' = [inflight EXCEPT ![p] =
                              [Idle EXCEPT !.op = "update", !.id = id,
                                           !.admin = auth.admin,
                                           !.cred = cred, !.body = body,
                                           !.found = <<blogs[id]>>]]
            /\ UNCHANGED res
    /\ UNCHANGED <<blogs, nextId, now>>
    /\ UNCHANGED frontend

\* The write done as a save of the document findById loaded, with the body
\* applied to it.
UpdateBlogWriteSavesLoaded(p) ==
    /\ inflight[p].op = "update"
    /\ LET id == inflight[p].id
           r == Reply(p, "updateBlog", inflight[p].cred, id, 200,
                      "Blog updated successfully", "updateBlog")
       IN IF id \in DOMAIN blogs
          THEN LET doc == ApplyUpdate(inflight[p].found[1], inflight[p].body)
               IN /\ blogs' = [blogs EXCEPT ![id] = doc]
                  /\ res' = [r EXCEPT !.blog = [id |-> id,
                                                author |-> doc.author,
                                                isPublished |-> doc.isPublished,
                                                publishedAt |-> doc.publishedAt],
                                      !.sections = doc.sections]
          ELSE /\ res' = r
               /\ UNCHANGED blogs
    /\ inflight' = [inflight EXCEPT ![p] = Idle]
    /\ UNCHANGED <<nextId, now>>
    /\ UNCHANGED frontend

\* The write with the option upsert: true, which inserts the document when
\* the id matches none.
UpdateBlogWriteUpserts(p) ==
    /\ inflight[p].op = "update"
    /\ LET id == inflight[p].id
           old == IF id \in DOMAIN blogs
                  THEN blogs[id]
                  ELSE [author |-> NoAuthor, isPublished |-> FALSE,
                        publishedAt |-> Unset, sections |-> NoSections]
           doc == ApplyUpdate(old, inflight[p].body)
       IN /\ blogs' = [i \in DOMAIN blogs \cup {id} |->
                         IF i = id THEN doc ELSE blogs[i]]
          /\ res' = [Reply(p, "updateBlog", inflight[p].cred, id, 200,
                           "Blog updated successfully", "updateBlog")
                       EXCEPT !.blog = [id |-> id,
                                        author |-> doc.author,
                                        isPublished |-> doc.isPublished,
                                        publishedAt |-> doc.publishedAt],
                              !.sections = doc.sections]
    /\ inflight' = [inflight EXCEPT ![p] = Idle]
    /\ UNCHANGED <<nextId, now>>
    /\ UNCHANGED frontend

\* PUT /api/blogs/:id, from the second await: Blog.findByIdAndUpdate and the
\* answer, whose blog is null when the document is gone.
UpdateBlogWrite(p) ==
    /\ inflight[p].op = "update"
    /\ LET id == inflight[p].id
           r == Reply(p, "updateBlog", inflight[p].cred, id, 200,
                      "Blog updated successfully", "updateBlog")
       IN IF id \in DOMAIN blogs
          THEN LET doc == ApplyUpdate(blogs[id], inflight[p].body)
               IN /\ blogs' = [blogs EXCEPT ![id] = doc]
                  /\ res' = [r EXCEPT !.blog = [id |-> id,
                                                author |-> doc.author,
                                                isPublished |-> doc.isPublished,
                                                publishedAt |-> doc.publishedAt],
                                      !.sections = doc.sections]
          ELSE /\ res' = r
               /\ UNCHANGED blogs
    /\ inflight' = [inflight EXCEPT ![p] = Idle]
    /\ UNCHANGED <<nextId, now>>
    /\ UNCHANGED frontend

\* DELETE /api/blogs/:id, up to the second await.
DeleteBlogFind(p, cred, id) ==
    /\ LET auth == protect(cred) IN
       IF ~auth.next
       THEN /\ res' = Reply(p, "deleteBlog", cred, id, auth.status,
                            auth.message, "none")
            /\ UNCHANGED inflight
       ELSE IF id \notin DOMAIN blogs
       THEN /\ res' = Reply(p, "deleteBlog", cred, id, 404, "Blog not found",
                            "deleteBlog")
            /\ UNCHANGED inflight
       ELSE IF ~IsAuthor(blogs[id], auth.admin)
       THEN /\ res' = Reply(p, "deleteBlog", cred, id, 403,
                            "Not authorized to delete this blog", "deleteBlog")
            /\ UNCHANGED inflight
       ELSE /\ inflight' = [inflight EXCEPT ![p] =
                              [Idle EXCEPT !.op = "delete", !.id = id,
                                           !.admin = auth.admin,
                                           !.cred = cred,
                                           !.found = <<blogs[id]>>]]
            /\ UNCHANGED res
    /\ UNCHANGED <<blogs, nextId, now>>
    /\ UNCHANGED frontend

\* DELETE /api/blogs/:id, from the second await: blog.deleteOne().
DeleteBlogRemove(p) ==
    /\ inflight[p].op = "delete"
    /\ blogs' = [i \in DOMAIN blogs \ {inflight[p].id} |-> blogs[i]]
    /\ res' = Reply(p, "deleteBlog", inflight[p].cred, inflight[p].id, 200,
                    "Blog deleted successfully", "deleteBlog")
    /\ inflight' = [inflight EXCEPT ![p] = Idle]
    /\ UNCHANGED <<nextId, now>>
    /\ UNCHANGED frontend

\* The values the page and limit query parameters are drawn from; "" is a
\* missing parameter.
PageVals == {"", "abc", "0", "1", "2", "-1"}

LimitVals == {"", "abc", "0", "1", "-1"}

\* parseInt(raw) || dflt: NaN and 0 are falsy.
ParseIntOr(raw, dflt) ==
    CASE raw = "1" -> 1
      [] raw = "2" -> 2
      [] raw = "3" -> 3
      [] raw = "4" -> 4
      [] raw = "6" -> 6
      [] raw = "-1" -> -1
      [] OTHER -> dflt

\* The quotient rounded down instead of up.
CeilDivFloors(total, limit) == total \div limit

\* Math.ceil(total / limit), limit # 0.
CeilDiv(total, limit) ==
    IF limit > 0
    THEN (total + limit - 1) \div limit
    ELSE -(total \div (-limit))

\* The isPublished filter left out of the query.
PublishedUnfiltered == DOMAIN blogs

\* The ids Blog.find({ isPublished: true }) matches.
Published == {i \in DOMAIN blogs : blogs[i].isPublished}

\* .sort({ publishedAt: -1 }): the orders the store may return the matches
\* in; a missing publishedAt sorts below every date, and the order of equal
\* keys is the store's choice.
RECURSIVE SortedByPublishedAt(_)
SortedByPublishedAt(S) ==
    IF S = {}
    THEN {<<>>}
    ELSE UNION {{<<m>> \o t : t \in SortedByPublishedAt(S \ {m})} :
                  m \in {x \in S : \A y \in S :
                            blogs[x].publishedAt >= blogs[y].publishedAt}}

\* .skip(skip).limit(limit); the driver sends a negative limit as its
\* absolute value.
SkipLimit(s, skip, limit) ==
    LET lim == IF limit < 0 THEN -limit ELSE limit
        last == IF skip + lim < Len(s) THEN skip + lim ELSE Len(s)
    IN SubSeq(s, skip + 1, last)

\* GET /api/blogs, a public route that reads no header, up to the second
\* await: the query parameters and Blog.find; the store rejects a negative
\* skip.
GetBlogsFind(p, pageRaw, limitRaw) ==
    /\ LET page == ParseIntOr(pageRaw, DefaultPage)
           limit == ParseIntOr(limitRaw, DefaultLimit)
           skip == (page - 1) * limit
       IN IF skip < 0
          THEN /\ res' = Reply(p, "getBlogs", NoCred, 0, 500, "Server error",
                               "getBlogs")
               /\ UNCHANGED inflight
          ELSE /\ \E s \in SortedByPublishedAt(Published) :
                    inflight' = [inflight EXCEPT ![p] =
                        [Idle EXCEPT !.op = "list", !.page = page, !.limit = limit,
                                     !.found = [k \in DOMAIN SkipLimit(s, skip, limit) |->
                                                  Doc(SkipLimit(s, skip, limit)[k])]]]
               /\ UNCHANGED res
    /\ UNCHANGED <<blogs, nextId, now>>
    /\ UNCHANGED frontend

\* GET /api/blogs, from the second await: Blog.countDocuments and the answer.
GetBlogsCount(p) ==
    /\ inflight[p].op = "list"
    /\ LET total == Cardinality(Published)
       IN res' = [Reply(p, "getBlogs", NoCred, 0, 200, "", "getBlogs")
                    EXCEPT !.blogs = inflight[p].found,
                           !.count = Len(inflight[p].found),
                           !.total = total,
                           !.pages = CeilDiv(total, inflight[p].limit),
                           !.currentPage = inflight[p].page,
                           !.limit = inflight[p].limit]
    /\ inflight' = [inflight EXCEPT ![p] = Idle]
    /\ UNCHANGED <<blogs, nextId, now>>
    /\ UNCHANGED frontend

\* The author filter left out of the query.
AllNewestFirst(admin) ==
    CHOOSE s \in [1..Cardinality(DOMAIN blogs) -> DOMAIN blogs] :
        \A i, j \in 1..Cardinality(DOMAIN blogs) : i < j => s[i] > s[j]

\* Blog.find({ author }).sort({ createdAt: -1 }): the store assigns ids in
\* creation order, so the newest document has the greatest id.
ByAuthorNewestFirst(admin) ==
    LET S == {i \in DOMAIN blogs : blogs[i].author = admin}
    IN CHOOSE s \in [1..Cardinality(S) -> S] :
          \A i, j \in 1..Cardinality(S) : i < j => s[i] > s[j]

\* GET /api/blogs/admin/all: protect, then getAdminBlogs.
GetAdminBlogs(p, cred) ==
    /\ LET auth == protect(cred) IN
       IF ~auth.next
       THEN res' = Reply(p, "getAdminBlogs", cred, 0, auth.status,
                         auth.message, "none")
       ELSE LET s == ByAuthorNewestFirst(auth.admin)
            IN res' = [Reply(p, "getAdminBlogs", cred, 0, 200, "",
                             "getAdminBlogs")
                         EXCEPT !.blogs = [k \in DOMAIN s |-> Doc(s[k])],
                                !.count = Len(s)]
    /\ UNCHANGED <<blogs, nextId, now, inflight>>
    /\ UNCHANGED frontend

\* The requests a ready process takes, with the inputs they are drawn from.
GetBlogByIdRequest(p) ==
    Ready(p) /\ \E cred \in Creds, id \in BlogIds : GetBlogById(p, cred, id)

CreateBlogRequest(p) ==
    Ready(p) /\ \E cred \in Creds, body \in Bodies : CreateBlog(p, cred, body)

UpdateBlogRequest(p) ==
    Ready(p) /\ \E cred \in Creds, id \in BlogIds, body \in Bodies :
                   UpdateBlogFind(p, cred, id, body)

\* The dashboard's publish toggle of a stored post.
PublishToggleRequest(p) ==
    Ready(p) /\ \E cred \in Creds, id \in DOMAIN blogs :
                   UpdateBlogFind(p, cred, id, ToggleBody(blogs[id]))

DeleteBlogRequest(p) ==
    Ready(p) /\ \E cred \in Creds, id \in BlogIds : DeleteBlogFind(p, cred, id)

GetBlogsRequest(p) ==
    Ready(p) /\ \E pageRaw \in PageVals, limitRaw \in LimitVals :
                   GetBlogsFind(p, pageRaw, limitRaw)

GetAdminBlogsRequest(p) ==
    Ready(p) /\ \E cred \in Creds : GetAdminBlogs(p, cred)

Next ==
    \/ Tick
    \/ Receive
    \/ \E p \in Procs : GetBlogByIdRequest(p)
    \/ \E p \in Procs : CreateBlogRequest(p)
    \/ \E p \in Procs : UpdateBlogRequest(p)
    \/ \E p \in Procs : PublishToggleRequest(p)
    \/ \E p \in Procs : UpdateBlogWrite(p)
    \/ \E p \in Procs : DeleteBlogRequest(p)
    \/ \E p \in Procs : DeleteBlogRemove(p)
    \/ \E p \in Procs : GetBlogsRequest(p)
    \/ \E p \in Procs : GetBlogsCount(p)
    \/ \E p \in Procs : GetAdminBlogsRequest(p)

Spec == Init /\ [][Next]_vars

----------------------------------------------------------------------------
\* The public listing read page by page over a store that already holds
\* posts: up to MaxPosts published ones, post i published at time i, and
\* possibly a draft created after them.

\* The page size BlogList asks for.
ListPageSize == 6

InitPaging ==
    /\ \E n \in 0..MaxPosts, drafts \in 0..1 :
          /\ blogs = [i \in 1..(n + drafts) |->
                        [author |-> "a1",
                         isPublished |-> i <= n,
                         publishedAt |-> IF i <= n THEN i ELSE Unset,
                         sections |-> NoSections]]
          /\ nextId = n + drafts + 1
          /\ now = n + drafts
    /\ inflight = [p \in Procs |-> Idle]
    /\ res = NoResponse
    /\ InitFrontend

PagingPageVals == {"", "1", "2", "3", "4"}

PagingLimitVals == {"", "1", "6"}

GetBlogsPageRequest(p) ==
    /\ Ready(p)
    /\ \E pageRaw \in PagingPageVals, limitRaw \in PagingLimitVals :
          GetBlogsFind(p, pageRaw, limitRaw)

NextPaging ==
    \/ Receive
    \/ \E p \in Procs : GetBlogsPageRequest(p)
    \/ \E p \in Procs : GetBlogsCount(p)

SpecPaging == InitPaging /\ [][NextPaging]_vars

----------------------------------------------------------------------------
\* The authentication routes: POST /api/auth/login and GET /api/auth/me, the
\* latter with protect taken statement by statement.  The admin collection
\* holds the admins of Admins, a1 with the e-mail a1@x.io and the password
\* pw1, a2 with a2@x.io and pw2.

Emails == {"", "a1@x.io", "A1@x.io", "a2@x.io", "nobody@x.io"}

Passwords == {"", "pw1", "pw2"}

\* body('email').isEmail()
IsEmail(email) == email # ""

\* body('email').normalizeEmail(): lower case.
NormalizeEmail(email) == IF email = "A1@x.io" THEN "a1@x.io" ELSE email

\* Admin.findOne({ email }), NoAdmin when there is none.
AdminByEmail(email) ==
    CASE email = "a1@x.io" -> "a1"
      [] email = "a2@x.io" -> "a2"
      [] OTHER -> NoAdmin

PasswordOf(admin) == IF admin = "a1" THEN "pw1" ELSE "pw2"

\* admin.comparePassword(password)
comparePassword(admin, password) == password = PasswordOf(admin)

\* generateToken(admin._id): a token protect accepts for that admin.
generateToken(admin) == [scheme |-> "bearer", valid |-> TRUE, id |-> admin]

LoginReply(p, email, password, status, message) ==
    [Reply(p, "loginAdmin", NoCred, 0, status, message, "loginAdmin")
       EXCEPT !.email = email, !.password = password]

\* POST /api/auth/login up to the await of comparePassword: the validation
\* result, Admin.findOne and the answer when there is no such admin.
LoginAdminFind(p, email, password) ==
    /\ IF ~IsEmail(email) \/ password = ""
       THEN /\ res' = LoginReply(p, email, password, 400, "")
            /\ UNCHANGED inflight
       ELSE IF AdminByEmail(NormalizeEmail(email)) = NoAdmin
       THEN /\ res' = LoginReply(p, email, password, 401,
                                 "Invalid credentials")
            /\ UNCHANGED inflight
       ELSE /\ inflight' = [inflight EXCEPT ![p] =
                  [Idle EXCEPT !.op = "login",
                               !.admin = AdminByEmail(NormalizeEmail(email)),
                               !.email = email, !.password = password]]
            /\ UNCHANGED res
    /\ UNCHANGED <<blogs, nextId, now>>
    /\ UNCHANGED frontend

\* The login that tells a wrong password from an unknown e-mail.
LoginAdminCompareTellsWhy(p) ==
    /\ inflight[p].op = "login"
    /\ res' = IF ~comparePassword(inflight[p].admin, inflight[p].password)
              THEN LoginReply(p, inflight[p].email, inflight[p].password,
                              401, "Wrong password")
              ELSE [LoginReply(p, inflight[p].email, inflight[p].password,
                               200, "Login successful")
                      EXCEPT !.token = generateToken(inflight[p].admin),
                             !.admin = inflight[p].admin]
    /\ inflight' = [inflight EXCEPT ![p] = Idle]
    /\ UNCHANGED <<blogs, nextId, now>>
    /\ UNCHANGED frontend

\* POST /api/auth/login from the await of comparePassword.
LoginAdminCompare(p) ==
    /\ inflight[p].op = "login"
    /\ res' = IF ~comparePassword(inflight[p].admin, inflight[p].password)
              THEN LoginReply(p, inflight[p].email, inflight[p].password,
                              401, "Invalid credentials")
              ELSE [LoginReply(p, inflight[p].email, inflight[p].password,
                               200, "Login successful")
                      EXCEPT !.token = generateToken(inflight[p].admin),
                             !.admin = inflight[p].admin]
    /\ inflight' = [inflight EXCEPT ![p] = Idle]
    /\ UNCHANGED <<blogs, nextId, now>>
    /\ UNCHANGED frontend

\* protect up to the await of Admin.findById: without a Bearer header the
\* first block is skipped and the last one answers; jwt.verify throws on a
\* token that is malformed, badly signed or expired, and the catch block
\* answers and returns.
ProtectVerify(p, cred) ==
    /\ IF cred.scheme # "bearer"
       THEN /\ res' = [Reply(p, "getMe", cred, 0, 401,
                             "Not authorized, no token", "none")
                         EXCEPT !.sends = 1]
            /\ UNCHANGED inflight
       ELSE IF ~cred.valid
       THEN /\ res' = [Reply(p, "getMe", cred, 0, 401, "Not authorized",
                             "none")
                         EXCEPT !.sends = 1]
            /\ UNCHANGED inflight
       ELSE /\ inflight' = [inflight EXCEPT ![p] =
                  [Idle EXCEPT !.op = "protect", !.cred = cred]]
            /\ UNCHANGED res
    /\ UNCHANGED <<blogs, nextId, now>>
    /\ UNCHANGED frontend

\* protect without the return after its answer for a missing admin.
ProtectLookupNoReturn(p) ==
    /\ inflight[p].op = "protect"
    /\ LET cred == inflight[p].cred
           admin == IF cred.id \in Admins THEN cred.id ELSE NoAdmin
           sent == IF admin = NoAdmin THEN 1 ELSE 0
       IN res' = IF admin = NoAdmin
                 THEN [Reply(p, "getMe", cred, 0, 401, "Not authorized",
                             "getMe")
                         EXCEPT !.sends = sent, !.nexts = 1]
                 ELSE [Reply(p, "getMe", cred, 0, 200, "", "getMe")
                         EXCEPT !.admin = admin, !.sends = sent, !.nexts = 1]
    /\ inflight' = [inflight EXCEPT ![p] = Idle]
    /\ UNCHANGED <<blogs, nextId, now>>
    /\ UNCHANGED frontend

\* protect from the await of Admin.findById, and getMe behind it: a missing
\* admin is answered 401 and protect returns; otherwise next() runs getMe,
\* and the final test of protect finds the token set and answers nothing.
ProtectLookup(p) ==
    /\ inflight[p].op = "protect"
    /\ LET cred == inflight[p].cred
           admin == IF cred.id \in Admins THEN cred.id ELSE NoAdmin
           sent == IF admin = NoAdmin THEN 1 ELSE 0
           returned == admin = NoAdmin
           called == IF returned THEN 0 ELSE 1
       IN res' = IF returned
                 THEN [Reply(p, "getMe", cred, 0, 401, "Not authorized",
                             "none")
                         EXCEPT !.sends = sent, !.nexts = called]
                 ELSE [Reply(p, "getMe", cred, 0, 200, "", "getMe")
                         EXCEPT !.admin = admin, !.sends = sent,
                                !.nexts = called]
    /\ inflight' = [inflight EXCEPT ![p] = Idle]
    /\ UNCHANGED <<blogs, nextId, now>>
    /\ UNCHANGED frontend

InitAuth ==
    /\ blogs = <<>>
    /\ nextId = 1
    /\ now = 0
    /\ inflight = [p \in ConcProcs |-> Idle]
    /\ res = NoResponse
    /\ InitFrontend

LoginRequest(p) ==
    /\ Ready(p)
    /\ \E email \in Emails, password \in Passwords :
          LoginAdminFind(p, email, password)

GetMeRequest(p) ==
    /\ Ready(p)
    /\ \E cred \in Creds : ProtectVerify(p, cred)

NextAuth ==
    \/ Receive
    \/ \E p \in ConcProcs : LoginRequest(p)
    \/ \E p \in ConcProcs : LoginAdminCompare(p)
    \/ \E p \in ConcProcs : GetMeRequest(p)
    \/ \E p \in ConcProcs : ProtectLookup(p)

SpecAuth == InitAuth /\ [][NextAuth]_vars

----------------------------------------------------------------------------
\* BlogList paging through the public listing while the owner of the posts
\* deletes them: process p1 serves the requests of BlogList and p2 those of
\* the owner.  The store starts with up to MaxPosts published posts of a1.
\* Previous and Next are clicked only after the effect of the last click has
\* run and while no request of BlogList is awaited.

InitBlogList ==
    /\ \E n \in 0..MaxPosts :
          /\ blogs = [i \in 1..n |->
                        [author |-> "a1", isPublished |-> TRUE,
                         publishedAt |-> i, sections |-> NoSections]]
          /\ nextId = n + 1
          /\ now = n
    /\ inflight = [p \in ConcProcs |-> Idle]
    /\ res = NoResponse
    /\ InitFrontend

\* A number as axios writes it into the query string.
QueryParam(n) ==
    CASE n = 1 -> "1"
      [] n = 2 -> "2"
      [] n = 3 -> "3"
      [] n = 4 -> "4"
      [] n = 6 -> "6"

\* useEffect(() => { fetchBlogs() }, [page]): fetchBlogs up to its await,
\* at mount and after every change of page.
BlogListFetch ==
    /\ blogList.fetched # blogList.page
    /\ blogList.pending = 0
    /\ blogList' = [blogList EXCEPT !.loading = TRUE, !.error = FALSE,
                                    !.fetched = blogList.page,
                                    !.pending = blogList.page]
    /\ UNCHANGED <<blogs, nextId, now, inflight, res, session, dashboard>>

\* The server takes the request of BlogList.
BlogListServe ==
    /\ blogList.pending # 0
    /\ Ready("p1")
    /\ res.op = "none"
    /\ GetBlogsFind("p1", QueryParam(blogList.pending),
                    QueryParam(ListPageSize))

BlogListCount ==
    /\ res.op = "none"
    /\ GetBlogsCount("p1")

\* fetchBlogs from its await: setBlogs and setTotalPages on success, the
\* error message otherwise, and setLoading(false).
BlogListReceive ==
    /\ res.proc = "p1"
    /\ res.op = "getBlogs"
    /\ blogList' = IF res.status = 200
                   THEN [blogList EXCEPT !.shown = res.count,
                                         !.totalPages = res.pages,
                                         !.loading = FALSE, !.pending = 0]
                   ELSE [blogList EXCEPT !.error = TRUE,
                                         !.loading = FALSE, !.pending = 0]
    /\ res' = NoResponse
    /\ UNCHANGED <<blogs, nextId, now, inflight, session, dashboard>>

\* The pagination controls are rendered.
ControlsShown ==
    /\ ~(blogList.loading /\ blogList.shown = 0)
    /\ ~blogList.error
    /\ blogList.shown # 0
    /\ blogList.totalPages > 1

\* Previous: setPage(p => Math.max(1, p - 1)), disabled on page 1.
BlogListPrevious ==
    /\ ControlsShown
    /\ blogList.pending = 0
    /\ blogList.fetched = blogList.page
    /\ blogList.page # 1
    /\ blogList' = [blogList EXCEPT !.page =
                       IF blogList.page - 1 > 1 THEN blogList.page - 1 ELSE 1]
    /\ UNCHANGED <<blogs, nextId, now, inflight, res, session, dashboard>>

\* Next: setPage(p => Math.min(totalPages, p + 1)), disabled on the last
\* page.
BlogListNext ==
    /\ ControlsShown
    /\ blogList.pending = 0
    /\ blogList.fetched = blogList.page
    /\ blogList.page # blogList.totalPages
    /\ blogList' = [blogList EXCEPT !.page =
                       IF blogList.page + 1 < blogList.totalPages
                       THEN blogList.page + 1 ELSE blogList.totalPages]
    /\ UNCHANGED <<blogs, nextId, now, inflight, res, session, dashboard>>

\* The owner deletes the newest post.
OwnerDeleteRequest ==
    /\ Ready("p2")
    /\ res.op = "none"
    /\ \E id \in DOMAIN blogs :
          /\ \A i \in DOMAIN blogs : i <= id
          /\ DeleteBlogFind("p2", generateToken(blogs[id].author), id)

OwnerDeleteRemove ==
    /\ res.op = "none"
    /\ DeleteBlogRemove("p2")

OwnerReceive ==
    /\ res.proc = "p2"
    /\ Receive

NextBlogList ==
    \/ BlogListFetch
    \/ BlogListServe
    \/ BlogListCount
    \/ BlogListReceive
    \/ BlogListPrevious
    \/ BlogListNext
    \/ OwnerDeleteRequest
    \/ OwnerDeleteRemove
    \/ OwnerReceive

SpecBlogList == InitBlogList /\ [][NextBlogList]_vars

----------------------------------------------------------------------------
\* The client session: AuthProvider in a browser whose localStorage holds no
\* token, a token of a1 or a token that is no longer valid, against the
\* authentication routes.  Process p1 serves GET /api/auth/me and p2 serves
\* POST /api/auth/login.  The login form is used while no admin is set and
\* Logout while one is, as Header renders them.

StoredTokens ==
    {NoCred, generateToken("a1"),
     [scheme |-> "bearer", valid |-> FALSE, id |-> NoAdmin]}

InitSession ==
    /\ blogs = <<>>
    /\ nextId = 1
    /\ now = 0
    /\ inflight = [p \in ConcProcs |-> Idle]
    /\ res = NoResponse
    /\ blogList = BlogListInit
    /\ \E token \in StoredTokens : session = SessionInit(token)
    /\ dashboard = DashboardInit

\* logout(): removes the token from localStorage, deletes the default
\* Authorization header and sets admin to null.
logout(s) == [s EXCEPT !.token = NoCred, !.header = NoCred, !.admin = NoAdmin]

\* The mount effect: with a stored token it sets the header and calls
\* fetchAdmin, which sends its request; without one it ends loading.
SessionMount ==
    /\ ~session.mounted
    /\ session' = IF session.token # NoCred
                  THEN [session EXCEPT !.mounted = TRUE,
                                       !.header = session.token,
                                       !.fetchAdmin = "sent",
                                       !.sent = session.token]
                  ELSE [session EXCEPT !.mounted = TRUE, !.loading = FALSE]
    /\ UNCHANGED <<blogs, nextId, now, inflight, res, blogList, dashboard>>

SessionFetchServe ==
    /\ session.fetchAdmin = "sent"
    /\ Ready("p1")
    /\ res.op = "none"
    /\ ProtectVerify("p1", session.sent)

SessionFetchLookup ==
    /\ res.op = "none"
    /\ ProtectLookup("p1")

\* fetchAdmin from its await: setAdmin on success, logout() on an error, and
\* setLoading(false).
SessionFetchAdminDone ==
    /\ res.proc = "p1"
    /\ res.op = "getMe"
    /\ session' = [(IF res.status = 200
                    THEN [session EXCEPT !.admin = res.admin]
                    ELSE logout(session))
                      EXCEPT !.loading = FALSE, !.fetchAdmin = "done"]
    /\ res' = NoResponse
    /\ UNCHANGED <<blogs, nextId, now, inflight, blogList, dashboard>>

\* login(email, password) up to its await.
SessionLogin ==
    /\ session.mounted
    /\ session.admin = NoAdmin
    /\ session.login # "sent"
    /\ \E email \in Emails, password \in Passwords :
          session' = [session EXCEPT !.login = "sent", !.email = email,
                                     !.password = password]
    /\ UNCHANGED <<blogs, nextId, now, inflight, res, blogList, dashboard>>

SessionLoginServe ==
    /\ session.login = "sent"
    /\ Ready("p2")
    /\ res.op = "none"
    /\ LoginAdminFind("p2", session.email, session.password)

SessionLoginCompare ==
    /\ res.op = "none"
    /\ LoginAdminCompare("p2")

\* login from its await: on success the token goes to localStorage and to the
\* default header and admin is set; an error response sets the error.
SessionLoginDone ==
    /\ res.proc = "p2"
    /\ res.op = "loginAdmin"
    /\ session' = IF res.status = 200
                  THEN [session EXCEPT !.token = res.token,
                                       !.header = res.token,
                                       !.admin = res.admin,
                                       !.login = "done"]
                  ELSE [session EXCEPT !.login = "done"]
    /\ res' = NoResponse
    /\ UNCHANGED <<blogs, nextId, now, inflight, blogList, dashboard>>

\* Header's Logout button, rendered while isAuthenticated.
SessionLogout ==
    /\ session.admin # NoAdmin
    /\ session' = logout(session)
    /\ UNCHANGED <<blogs, nextId, now, inflight, res, blogList, dashboard>>

NextSession ==
    \/ SessionMount
    \/ SessionFetchServe
    \/ SessionFetchLookup
    \/ SessionFetchAdminDone
    \/ SessionLogin
    \/ SessionLoginServe
    \/ SessionLoginCompare
    \/ SessionLoginDone
    \/ SessionLogout

SpecSession == InitSession /\ [][NextSession]_vars

----------------------------------------------------------------------------
\* The dashboard of admin a1 after its first fetchBlogs: the store holds
\* MaxBlogs posts of a1, each a draft or published, and the dashboard's blogs
\* are copies of them.  The admin clicks the publish toggles that are
\* enabled.  The request for post 1 is handled by p1 and the one for post 2
\* by p2; the admin's token may have expired by the time a request is
\* verified.  At most one request per post is outstanding.

NoToggle == [sent |-> FALSE, body |-> EmptyBody, snapshot |-> <<>>]

InitDashboard ==
    /\ \E pub \in [1..MaxBlogs -> BOOLEAN] :
          blogs = [i \in 1..MaxBlogs |->
                     PreSave([author |-> "a1", isPublished |-> pub[i],
                              publishedAt |-> Unset,
                              sections |-> FirstSections], 0)]
    /\ nextId = MaxBlogs + 1
    /\ now = 0
    /\ inflight = [p \in ConcProcs |-> Idle]
    /\ res = NoResponse
    /\ blogList = BlogListInit
    /\ session = SessionInit(NoCred)
    /\ dashboard = [DashboardInit EXCEPT
                      !.blogs = blogs,
                      !.pending = [i \in 1..MaxBlogs |-> NoToggle]]

DashboardCreds ==
    {generateToken("a1"),
     [scheme |-> "bearer", valid |-> FALSE, id |-> NoAdmin]}

DashboardProc(id) == IF id = 1 THEN "p1" ELSE "p2"

\* disabled={updatingId === blog._id}
ToggleDisabled(id) == dashboard.updatingId = id

\* handlePublishToggle up to its await: setUpdatingId(blog._id) and the PUT
\* with the copy's fields; the closure keeps the blogs of this render.
DashboardToggle ==
    \E id \in DOMAIN dashboard.blogs :
       /\ ~ToggleDisabled(id)
       /\ ~dashboard.pending[id].sent
       /\ dashboard' = [dashboard EXCEPT
                          !.updatingId = id,
                          !.pending[id] =
                              [sent |-> TRUE,
                               body |-> ToggleBody(dashboard.blogs[id]),
                               snapshot |-> dashboard.blogs]]
       /\ UNCHANGED <<blogs, nextId, now, inflight, res, blogList, session>>

DashboardServe ==
    \E id \in DOMAIN dashboard.pending :
       /\ dashboard.pending[id].sent
       /\ Ready(DashboardProc(id))
       /\ res.op = "none"
       /\ \E cred \in DashboardCreds :
             UpdateBlogFind(DashboardProc(id), cred, id,
                            dashboard.pending[id].body)

DashboardWrite ==
    /\ res.op = "none"
    /\ \E p \in ConcProcs : UpdateBlogWrite(p)

\* handlePublishToggle from its await: on success setBlogs with the toggled
\* copy flipped in the blogs of the closure; finally setUpdatingId(null).
DashboardToggleDone ==
    /\ res.op = "updateBlog"
    /\ LET id == res.id
           snapshot == dashboard.pending[id].snapshot
       IN dashboard' = [dashboard EXCEPT
             !.blogs = IF res.status = 200
                       THEN [i \in DOMAIN snapshot |->
                               IF i = id
                               THEN [snapshot[i] EXCEPT
                                       !.isPublished = ~snapshot[i].isPublished]
                               ELSE snapshot[i]]
                       ELSE @,
             !.updatingId = 0,
             !.pending[id] = NoToggle]
    /\ res' = NoResponse
    /\ UNCHANGED <<blogs, nextId, now, inflight, blogList, session>>

NextDashboard ==
    \/ DashboardToggle
    \/ DashboardServe
    \/ DashboardWrite
    \/ DashboardToggleDone

SpecDashboard == InitDashboard /\ [][NextDashboard]_vars

----------------------------------------------------------------------------
\* Two requests in progress at once on one post: the store holds a post of
\* admin a1, created as a draft or published at time 0, and two processes
\* send reads, updates and deletes of it with the tokens of existing admins.
\* Each handler runs up to its next await in one step, so the store calls of
\* the two requests interleave.

InitConc ==
    /\ \E pub \in BOOLEAN :
          blogs = [i \in 1..1 |->
                     PreSave([author |-> "a1", isPublished |-> pub,
                              publishedAt |-> Unset,
                              sections |-> FirstSections], 0)]
    /\ nextId = 2
    /\ now = 0
    /\ inflight = [p \in ConcProcs |-> Idle]
    /\ res = NoResponse
    /\ InitFrontend

ConcCreds == {c \in Creds : Identity(c) \in Admins}

ConcBodies ==
    {b \in [has : {{"isPublished"}, {"author"}, {"sections"}},
            isPublished : BOOLEAN,
            publishedAt : {Unset},
            author : Admins \cup {NoAuthor},
            sections : WholeSections \cup {NoSections}] :
        /\ ("isPublished" \notin b.has) => (b.isPublished = FALSE)
        /\ ("author" \in b.has) <=> (b.author # NoAuthor)
        /\ ("sections" \in b.has) <=> (b.sections # NoSections)}

ConcReadRequest(p) ==
    /\ Ready(p)
    /\ \E id \in 1..(nextId - 1) : GetBlogById(p, NoCred, id)

ConcUpdateRequest(p) ==
    /\ Ready(p)
    /\ \E cred \in ConcCreds, id \in 1..(nextId - 1), body \in ConcBodies :
          UpdateBlogFind(p, cred, id, body)

ConcDeleteRequest(p) ==
    /\ Ready(p)
    /\ \E cred \in ConcCreds, id \in 1..(nextId - 1) :
          DeleteBlogFind(p, cred, id)

ConcListRequest(p) ==
    /\ Ready(p)
    /\ GetBlogsFind(p, "", "")

ConcAdminListRequest(p) ==
    /\ Ready(p)
    /\ \E cred \in ConcCreds : GetAdminBlogs(p, cred)

NextConc ==
    \/ Receive
    \/ \E p \in ConcProcs : ConcReadRequest(p)
    \/ \E p \in ConcProcs : ConcListRequest(p)
    \/ \E p \in ConcProcs : GetBlogsCount(p)
    \/ \E p \in ConcProcs : ConcAdminListRequest(p)
    \/ \E p \in ConcProcs : ConcUpdateRequest(p)
    \/ \E p \in ConcProcs : ConcDeleteRequest(p)
    \/ \E p \in ConcProcs : UpdateBlogWrite(p)
    \/ \E p \in ConcProcs : DeleteBlogRemove(p)

SpecConc == InitConc /\ [][NextConc]_vars


\* ------------------------------------------------------------------ claims
WriteOps == {"updateBlog", "deleteBlog"}

\* A step in which a request is answered.
Answered == res' # res /\ res'.op # "none"

\* The store without the document id.
Without(store, id) == [i \in DOMAIN store \ {id} |-> store[i]]

\* C1: a single-post read returns the post iff the caller is its author or the
\* post is published; the author of an unpublished post can always read it.
C1_VisibleIffAuthorOrPublished ==
    [][(Answered /\ res'.op = "getBlogById" /\ res'.id \in DOMAIN blogs)
        => ((res'.status = 200 /\ res'.blog = Doc(res'.id))
            <=> (\/ Identity(res'.cred) = blogs[res'.id].author
                 \/ blogs[res'.id].isPublished))]_vars

\* C2: to a caller who is not the author, the answer of getBlogById for an
\* existing unpublished post equals, status and body, the answer the store
\* without that post gives.
C2_UnpublishedLooksAbsent ==
    \A id \in DOMAIN blogs, cred \in Creds, p \in Procs :
        (~blogs[id].isPublished /\ Identity(cred) # blogs[id].author)
        => getBlogById(blogs, p, cred, id)
             = getBlogById(Without(blogs, id), p, cred, id)

\* C3: an authenticated update or delete of a stored post goes on to its
\* write iff the caller is the post's author, and is otherwise answered 403,
\* whether the post is published or not.
C3_WriteAllowedIffAuthor ==
    [][\A p \in Procs :
        /\ (inflight[p].op = "idle" /\ inflight'[p].op \in {"update", "delete"})
            => /\ inflight'[p].id \in DOMAIN blogs
               /\ blogs[inflight'[p].id].author = inflight'[p].admin
               /\ Identity(inflight'[p].cred) = inflight'[p].admin
        /\ (/\ Answered
            /\ inflight[p].op = "idle"
            /\ res'.proc = p
            /\ res'.op \in WriteOps
            /\ res'.id \in DOMAIN blogs
            /\ Identity(res'.cred) \in Admins)
            => /\ res'.status = 403
               /\ blogs[res'.id].author # Identity(res'.cred)]_vars

C3_Witness ==
    /\ res.op \in WriteOps
    /\ res.status = 403
    /\ res.id \in DOMAIN blogs
    /\ blogs[res.id].isPublished
    /\ Identity(res.cred) \in Admins
    /\ blogs[res.id].author # Identity(res.cred)

\* C4: a create, update or delete request without a bearer credential is
\* answered 401 and enters no handler.
C4_NoCredentialNoHandler ==
    /\ (res.op \in WriteOps \cup {"createBlog"} /\ res.cred.scheme # "bearer")
        => (res.status = 401 /\ res.handler = "none")
    /\ \A p \in Procs :
        inflight[p].op \in {"update", "delete"}
        => inflight[p].cred.scheme = "bearer"

C4_Witness ==
    /\ res.op = "deleteBlog"
    /\ res.cred.scheme = "none"
    /\ res.status = 401
    /\ res.handler = "none"
    /\ res.id \in DOMAIN blogs


\* The process whose update reaches the store in this step.
UpdateWritten(p) == inflight[p].op = "update" /\ inflight'[p].op = "idle"

\* C5: a write that sets isPublished to true on a post whose publishedAt is
\* unset, at creation or by update, sets publishedAt to the current time.
C5_PublishSetsPublishedAt ==
    [][\A id \in DOMAIN blogs' :
        (\/ (id \notin DOMAIN blogs /\ blogs'[id].isPublished)
         \/ \E p \in Procs :
              /\ UpdateWritten(p)
              /\ inflight[p].id = id
              /\ "isPublished" \in inflight[p].body.has
              /\ inflight[p].body.isPublished
              /\ id \in DOMAIN blogs
              /\ blogs[id].publishedAt = Unset)
        => blogs'[id].publishedAt = now]_vars

\* C6: once publishedAt of a post is set, no step changes or clears it.
C6_PublishedAtNeverChanges ==
    [][\A id \in DOMAIN blogs \cap DOMAIN blogs' :
        blogs[id].publishedAt # Unset
        => blogs'[id].publishedAt = blogs[id].publishedAt]_vars

\* C7: publishedAt of a stored post is set iff isPublished has been true at
\* some point of its history.  Stated step by step: a post is created with
\* publishedAt set iff it is created published, and after a step publishedAt
\* is set iff it was set before or isPublished is true now.
C7_PublishedAtIffEverPublished ==
    [][\A id \in DOMAIN blogs' :
        IF id \notin DOMAIN blogs
        THEN (blogs'[id].publishedAt # Unset) <=> blogs'[id].isPublished
        ELSE (blogs'[id].publishedAt # Unset)
                <=> (blogs[id].publishedAt # Unset \/ blogs'[id].isPublished)]_vars

\* C8: the author of a stored post never changes.
C8_AuthorNeverChanges ==
    [][\A id \in DOMAIN blogs \cap DOMAIN blogs' :
        blogs'[id].author = blogs[id].author]_vars

\* C9: an update or delete answered 401 or 403 leaves every stored post as it
\* was.
C9_DeniedWriteNoEffect ==
    [][(Answered /\ res'.op \in WriteOps /\ res'.status \in {401, 403})
        => blogs' = blogs]_vars

C9_Witness ==
    /\ res.op = "updateBlog"
    /\ res.status = 403
    /\ res.id \in DOMAIN blogs
    /\ Cardinality(DOMAIN blogs) = 2

\* C10: every post of a listing answer is published, and the posts are in
\* descending order of publishedAt, a post without publishedAt after every
\* post with one.
C10_ListingPublishedAndOrdered ==
    (res.op = "getBlogs" /\ res.status = 200)
    => /\ \A k \in DOMAIN res.blogs : res.blogs[k].isPublished
       /\ \A i, j \in DOMAIN res.blogs :
            i < j => res.blogs[i].publishedAt >= res.blogs[j].publishedAt

C10_Witness ==
    /\ res.op = "getBlogs"
    /\ res.status = 200
    /\ Len(res.blogs) = 2
    /\ res.blogs[2].publishedAt # Unset
    /\ res.blogs[1].publishedAt > res.blogs[2].publishedAt

\* C11: the listing reports the number of published posts divided by the page
\* size, rounded up, as its page count; every page up to the last holds the
\* posts that fall on it, and a page beyond the last is answered with status
\* 200 and no posts.  With 13 published posts and pages of 6 there are 3
\* pages, page 3 holds 1 post and page 4 holds none.
C11_PagesAreCeiling ==
    (res.op = "getBlogs" /\ res.status = 200 /\ res.limit > 0) =>
        /\ res.pages * res.limit >= res.total
        /\ (res.pages - 1) * res.limit < res.total
        /\ res.currentPage > res.pages => res.count = 0
        /\ (res.currentPage >= 1 /\ res.currentPage <= res.pages) =>
              LET rest == res.total - (res.currentPage - 1) * res.limit
              IN res.count = IF rest < res.limit THEN rest ELSE res.limit
        /\ (res.total = 13 /\ res.limit = ListPageSize) =>
              /\ res.pages = 3
              /\ res.currentPage = 3 => res.count = 1
              /\ res.currentPage = 4 => res.count = 0

\* Page 4 of 13 published posts in pages of 6 was answered.
C11_Witness ==
    /\ res.op = "getBlogs"
    /\ res.status = 200
    /\ res.total = 13
    /\ res.limit = ListPageSize
    /\ res.currentPage = 4
    /\ res.pages = 3
    /\ res.count = 0

\* C12: a listing answered while no post is published reports a page count
\* of 1, never 0.
C12_EmptyListingHasOnePage ==
    (res.op = "getBlogs" /\ res.status = 200 /\ res.total = 0) =>
        res.pages = 1

\* C13: an update whose body requests the isPublished value the post already
\* has, the second of two identical publish or unpublish requests, leaves
\* isPublished and publishedAt as the first left them.
C13_SamePublicationRequestTwice ==
    [][\A p \in Procs :
        (/\ UpdateWritten(p)
         /\ inflight[p].id \in DOMAIN blogs
         /\ inflight[p].body.has = {"isPublished"}
         /\ inflight[p].body.isPublished = blogs[inflight[p].id].isPublished)
        => /\ blogs'[inflight[p].id].isPublished =
                  blogs[inflight[p].id].isPublished
           /\ blogs'[inflight[p].id].publishedAt =
                  blogs[inflight[p].id].publishedAt]_vars

\* A second publish request for a post published earlier is about to be
\* written.
C13_Witness ==
    \E p \in Procs :
        /\ inflight[p].op = "update"
        /\ inflight[p].id \in DOMAIN blogs
        /\ inflight[p].body.has = {"isPublished"}
        /\ inflight[p].body.isPublished
        /\ blogs[inflight[p].id].isPublished
        /\ blogs[inflight[p].id].publishedAt # Unset
        /\ blogs[inflight[p].id].publishedAt < now

\* The publication state of a stored post: Published stands for both
\* PublishedFirstTime and Republished, which differ in no stored field.
PubState(doc) ==
    CASE ~doc.isPublished /\ doc.publishedAt = Unset -> "Draft"
      [] doc.isPublished /\ doc.publishedAt # Unset -> "Published"
      [] ~doc.isPublished /\ doc.publishedAt # Unset -> "Unpublished"
      [] OTHER -> "Unspecified"

\* C14: a post is created as a draft or published, and from then on moves
\* only from Draft to Published, from Published to Unpublished and from
\* Unpublished to Published; no step returns it to Draft, and no step leaves
\* it with isPublished true and publishedAt unset.
C14_OnlySpecifiedTransitions ==
    [][\A id \in DOMAIN blogs' :
        /\ PubState(blogs'[id]) # "Unspecified"
        /\ id \in DOMAIN blogs =>
              \/ PubState(blogs'[id]) = PubState(blogs[id])
              \/ <<PubState(blogs[id]), PubState(blogs'[id])>> \in
                    {<<"Draft", "Published">>,
                     <<"Published", "Unpublished">>,
                     <<"Unpublished", "Published">>}]_vars

\* C15: a successful deleteBlog removes the post, and a removed post never
\* returns to the store, whatever requests were in progress when it was
\* deleted; every single-post read of it from then on is answered 404, and no
\* listing read from then on returns it.
C15_DeletionIsPermanent ==
    [][/\ \A id \in 1..(nextId - 1) :
             id \notin DOMAIN blogs => id \notin DOMAIN blogs'
       /\ (Answered /\ res'.op = "deleteBlog" /\ res'.status = 200) =>
             res'.id \notin DOMAIN blogs'
       /\ (Answered /\ res'.op = "getBlogById"
              /\ res'.id \notin DOMAIN blogs) =>
             (res'.status = 404 /\ res'.blog = NoDoc)
       /\ (Answered /\ res'.op = "getAdminBlogs") =>
             \A k \in DOMAIN res'.blogs : res'.blogs[k].id \in DOMAIN blogs
       /\ \A p \in DOMAIN inflight :
             (inflight[p].op = "idle" /\ inflight'[p].op = "list") =>
                \A k \in DOMAIN inflight'[p].found :
                    inflight'[p].found[k].id \in DOMAIN blogs]_vars

\* A read of the deleted post was answered 404 while the store is without it.
C15_Witness ==
    /\ res.op = "getBlogById"
    /\ res.status = 404
    /\ res.id < nextId
    /\ res.id \notin DOMAIN blogs

\* C16: an update or a delete changes the store only if the caller is the
\* author of the post as it is stored at the moment of the change, also when
\* another request was applied between the caller's ownership test and the
\* caller's write.
C16_WriteByAuthorAtWriteTime ==
    [][\A p \in DOMAIN inflight :
        (/\ inflight[p].op \in {"update", "delete"}
         /\ inflight'[p].op = "idle"
         /\ blogs' # blogs)
        => blogs[inflight[p].id].author = inflight[p].admin]_vars

\* The requests of the routes mounted behind protect.
ProtectedOps == {"createBlog", "updateBlog", "deleteBlog", "getAdminBlogs"}

\* C17 as stated: a request with an invalid bearer credential (badly signed,
\* expired, or naming an admin that does not exist) is answered by protect
\* with the status and the body a request with no credential is answered
\* with.
C17_SameStatusAndBody ==
    (res.op \in ProtectedOps /\ Identity(res.cred) = NoAdmin) =>
        /\ res.status = protect(NoCred).status
        /\ res.message = protect(NoCred).message

\* C17, amended: a request with no bearer credential and a request with an
\* invalid one are both answered 401 by protect, enter no handler and get no
\* post; the message is "Not authorized, no token" without a bearer
\* credential and "Not authorized" with an invalid one.
C17_SameRejectionOtherMessage ==
    (res.op \in ProtectedOps /\ Identity(res.cred) = NoAdmin) =>
        /\ res.status = 401
        /\ res.handler = "none"
        /\ res.blog = NoDoc
        /\ res.blogs = <<>>
        /\ res.message = IF res.cred.scheme = "bearer"
                         THEN "Not authorized"
                         ELSE "Not authorized, no token"

\* A request with a token naming an admin that does not exist was rejected.
C17_Witness ==
    /\ res.op \in ProtectedOps
    /\ res.cred.scheme = "bearer"
    /\ res.cred.valid
    /\ res.cred.id = GhostAdmin
    /\ res.status = 401
    /\ res.message = "Not authorized"

\* C18: a post created by createBlog has the authenticated admin of the
\* request as its author, whatever author the body carries, and is stored as
\* a draft, isPublished false and publishedAt unset, when the body carries
\* no isPublished.
C18_CreatedByCallerAsDraft ==
    [][(Answered /\ res'.op = "createBlog" /\ res'.status = 201) =>
          /\ res'.id \in DOMAIN blogs' \ DOMAIN blogs
          /\ blogs'[res'.id].author = Identity(res'.cred)
          /\ res'.blog.author = Identity(res'.cred)
          /\ "isPublished" \notin res'.body.has =>
                /\ ~blogs'[res'.id].isPublished
                /\ blogs'[res'.id].publishedAt = Unset]_vars

\* A post was created from a body that names another admin as author and
\* carries no isPublished.
C18_Witness ==
    /\ res.op = "createBlog"
    /\ res.status = 201
    /\ res.body.has = {"author"}
    /\ res.body.author \in Admins \ {Identity(res.cred)}
    /\ res.blog.author = Identity(res.cred)
    /\ ~res.blog.isPublished
    /\ res.blog.publishedAt = Unset

\* C19: the sections of a stored post are at every moment one complete
\* sequence, the old one or the one an update carried, and a single-post read
\* that runs while an update is in progress returns such a complete sequence,
\* in order, never a mixture of two.
C19_SectionsReplacedWhole ==
    /\ \A id \in DOMAIN blogs : blogs[id].sections \in WholeSections
    /\ (res.op = "getBlogById" /\ res.status = 200) =>
          res.sections \in WholeSections

\* A read returned the sections an earlier update wrote while another update
\* of the sections of the same post is past its ownership test and not yet
\* written.
C19_Witness ==
    /\ res.op = "getBlogById"
    /\ res.status = 200
    /\ res.sections = SecondSections
    /\ \E p \in DOMAIN inflight :
          /\ inflight[p].op = "update"
          /\ inflight[p].id = res.id
          /\ inflight[p].body.has = {"sections"}
          /\ inflight[p].body.sections = FirstSections

\* C20: each of two updates of one post that are in progress at once is
\* written onto the post as the store holds it at that moment: every field its
\* body carries takes the body's value and every other field keeps the value
\* the earlier write left, so the post ends as the two bodies applied one
\* after the other in the order of the writes; each write is answered 200
\* with the post it stored.
C20_LastWriterWins ==
    [][\A p \in DOMAIN inflight :
        (UpdateWritten(p) /\ inflight[p].id \in DOMAIN blogs) =>
           LET b == inflight[p].body
               old == blogs[inflight[p].id]
               new == blogs'[inflight[p].id]
           IN /\ new.isPublished = IF "isPublished" \in b.has
                                    THEN b.isPublished ELSE old.isPublished
              /\ new.publishedAt = IF "publishedAt" \in b.has
                                    THEN b.publishedAt ELSE old.publishedAt
              /\ new.author = IF "author" \in b.has
                               THEN b.author ELSE old.author
              /\ new.sections = IF "sections" \in b.has
                                 THEN b.sections ELSE old.sections
              /\ res'.proc = p
              /\ res'.status = 200
              /\ res'.blog.isPublished = new.isPublished
              /\ res'.blog.author = new.author
              /\ res'.sections = new.sections]_vars

\* One of two updates of the same post by the same admin has been written and
\* answered 200 while the other, which loaded the post before that write, is
\* still to be written.
C20_Witness ==
    /\ res.op = "updateBlog"
    /\ res.status = 200
    /\ res.id \in DOMAIN blogs
    /\ \E q \in DOMAIN inflight \ {res.proc} :
          /\ inflight[q].op = "update"
          /\ inflight[q].id = res.id
          /\ inflight[q].admin = Identity(res.cred)
          /\ inflight[q].found[1] # blogs[res.id]

\* C21: the store state and the page asked for determine the posts of the
\* public listing and their order, also when published posts have equal or
\* unset publishedAt.
C21_ListingOrderDetermined ==
    \A s1, s2 \in SortedByPublishedAt(Published) :
        SkipLimit(s1, 0, DefaultLimit) = SkipLimit(s2, 0, DefaultLimit)

\* C22: whatever the page and limit query parameters are, getBlogs asks the
\* store for a limit of at least 1 and a skip of at least 0, and so is never
\* answered with the store's error.
C22_PositiveLimitAndSkip ==
    /\ \A p \in DOMAIN inflight :
          inflight[p].op = "list" =>
             /\ inflight[p].limit >= 1
             /\ (inflight[p].page - 1) * inflight[p].limit >= 0
    /\ res.op = "getBlogs" => res.status = 200

\* C25: an update answered with success returns the updated post, which is
\* in the store at that moment; it is not answered with success and no post.
C25_UpdateSuccessHasPost ==
    [][(Answered /\ res'.op = "updateBlog" /\ res'.status = 200) =>
          /\ res'.id \in DOMAIN blogs'
          /\ res'.blog # NoDoc
          /\ res'.blog.id = res'.id]_vars

\* C26: getAdminBlogs answers an authenticated admin with exactly the stored
\* posts whose author is that admin, each once, published or not.
C26_AdminListIsOwnPosts ==
    [][(Answered /\ res'.op = "getAdminBlogs" /\ res'.status = 200) =>
          LET own == {i \in DOMAIN blogs :
                        blogs[i].author = Identity(res'.cred)}
          IN /\ Identity(res'.cred) \in Admins
             /\ {res'.blogs[k].id : k \in DOMAIN res'.blogs} = own
             /\ Len(res'.blogs) = Cardinality(own)
             /\ \A k \in DOMAIN res'.blogs :
                   /\ res'.blogs[k].author = Identity(res'.cred)
                   /\ res'.blogs[k].isPublished =
                          blogs[res'.blogs[k].id].isPublished]_vars

\* An admin was answered with its own unpublished post while the store also
\* holds a post of another admin.
C26_Witness ==
    /\ res.op = "getAdminBlogs"
    /\ res.status = 200
    /\ \E k \in DOMAIN res.blogs : ~res.blogs[k].isPublished
    /\ \E i \in DOMAIN blogs : blogs[i].author # Identity(res.cred)
    /\ \A k \in DOMAIN res.blogs : res.blogs[k].author = Identity(res.cred)

\* C27: every answer of the public listing agrees with itself: count is the
\* number of posts returned, count is at most limit, and the posts skipped
\* plus the posts returned are at most total.
C27_ListingAnswerConsistent ==
    (res.op = "getBlogs" /\ res.status = 200) =>
        /\ res.count = Len(res.blogs)
        /\ res.count <= res.limit
        /\ (res.currentPage - 1) * res.limit + res.count <= res.total

\* C24: for every request protect either calls next() once, with req.admin
\* an existing admin, and sends nothing, or sends one 401 response and does
\* not call next(); it never does both and never sends twice.
C24_NextOrOneRejection ==
    res.op = "getMe" =>
        \/ /\ res.nexts = 1
           /\ res.sends = 0
           /\ res.admin \in Admins
           /\ res.handler = "getMe"
        \/ /\ res.nexts = 0
           /\ res.sends = 1
           /\ res.status = 401
           /\ res.handler = "none"

\* A request with a token naming an admin that does not exist was answered
\* once, by protect, after the lookup.
C24_Witness ==
    /\ res.op = "getMe"
    /\ res.cred.valid
    /\ res.cred.id = GhostAdmin
    /\ res.sends = 1
    /\ res.nexts = 0

\* C28: a login that passes validation and names an unknown e-mail, or a
\* known e-mail with another password than that admin's, is answered 401
\* 'Invalid credentials' with no token and no admin, the same in both cases;
\* a token is issued only for a known e-mail with that admin's password, and
\* it is a token of that admin.
C28_LoginFailuresAlike ==
    res.op = "loginAdmin" =>
        LET admin == AdminByEmail(NormalizeEmail(res.email))
            matches == admin \in Admins /\ res.password = PasswordOf(admin)
        IN /\ res.token # NoCred =>
                 (matches /\ res.status = 200 /\ Identity(res.token) = admin)
           /\ (IsEmail(res.email) /\ res.password # "" /\ ~matches) =>
                 /\ res.status = 401
                 /\ res.message = "Invalid credentials"
                 /\ res.token = NoCred
                 /\ res.admin = NoAdmin

\* A login with a known e-mail and the password of another admin was
\* answered 401.
C28_Witness ==
    /\ res.op = "loginAdmin"
    /\ res.status = 401
    /\ AdminByEmail(NormalizeEmail(res.email)) \in Admins
    /\ res.password \notin {"", PasswordOf(AdminByEmail(NormalizeEmail(res.email)))}

\* C23: the page BlogList is on is at least 1 and at most its totalPages,
\* after every click and every listing response.
C23_PageWithinTotalPages ==
    /\ blogList.page >= 1
    /\ blogList.page <= blogList.totalPages

\* C29: once AuthProvider is mounted, the token is in localStorage iff the
\* default Authorization header is set, and admin is set only while both
\* are.
C29_SessionConsistent ==
    session.mounted =>
        /\ (session.token # NoCred) <=> (session.header # NoCred)
        /\ session.admin # NoAdmin =>
              (session.token # NoCred /\ session.header # NoCred)

\* C30: while a publish-toggle request for a post is in flight, that post's
\* toggle button is disabled.
C30_ToggleDisabledWhileInFlight ==
    \A id \in DOMAIN dashboard.pending :
        dashboard.pending[id].sent => ToggleDisabled(id)

====
